---- MODULE Spec2Model ----
(***************************************************************************)
(* The signaling server of Screenshare-backend (Express + Socket.IO).      *)
(*                                                                         *)
(* State: the in-memory room table `rooms`, the per-socket fields the      *)
(* handlers set (socket.roomId, socket.isHost), the set of connected       *)
(* sockets (io.sockets.sockets), and Socket.IO's adapter rooms (which      *)
(* socket has joined which room name).  One action per Socket.IO event     *)
(* handler; a handler runs to completion (Node's single-threaded event     *)
(* loop), nested synchronous 'disconnect' handlers included.               *)
(*                                                                         *)
(* `last` is the inbound event the loop has just handled and `sent` the    *)
(* messages that handler emitted, in emission order; Return hands control  *)
(* back to the event loop.  `steps` counts the lifecycle events handled    *)
(* (connection, start-share, join-view, stop-share, disconnect) and bounds *)
(* a run at MaxSteps of them.                                              *)
(***************************************************************************)
EXTENDS Integers, Sequences, FiniteSets, TLC

VARIABLES rooms, roomId, isHost, sockets, closed, joined, sent, last, steps

vars == <<rooms, roomId, isHost, sockets, closed, joined, sent, last, steps>>

---------------------------------------------------------------------------
(* Bounds and program constants *)

\* undefined / null / absent field
None == "none"

\* socket ids of the connections the model follows (each connects once)
Conns == {"c1", "c2", "c3"}

\* a fixed enumeration order of Conns, used to list broadcast recipients
ConnSeq == <<"c1", "c2", "c3">>

\* room ids a client supplies in start-share / join-view
RoomNames == {"r1"}

\* every key the room table can get: a supplied id, or the host's socket.id
RoomKeys == RoomNames \cup Conns

\* room ids the model sends in join-view: the supplied ids, and the id of the
\* first connection (the key of the room it starts without a roomId)
JoinRooms == RoomNames \cup {"c1"}

\* a targetId that names no connection, ever
Ghost == "ghost"

\* signal payloads (the offer / answer / candidate value)
Payloads == {"x1"}

\* longest viewer list the model lets join-view build
MaxViewers == 2

\* lifecycle events (connection, start-share, join-view, stop-share,
\* disconnect) the model handles in one run
MaxSteps == 7

\* validateEvent's size limit
MaxMessageSize == 65536

allowedEvents ==
  {"start-share", "join-view", "offer", "answer", "ice", "ice-candidate",
   "stop-share", "get-available"}

\* the signaling events, relayed by four handlers of the same shape
SignalEvents == {"offer", "answer", "ice", "ice-candidate"}

\* an event name for which the connection handler registers no listener
UnknownEvents == {"chat"}

---------------------------------------------------------------------------
(* Inbound payloads.  form: what JSON.stringify meets ("null": no payload, *)
(* "object": a plain object of `size` serialized characters, "circular":   *)
(* an object JSON.stringify throws on).  roomId, targetId and payload are  *)
(* the fields the handlers destructure; payload stands for the field the   *)
(* handler's kind reads (offer, answer or candidate).                      *)

NullData ==
  [form |-> "null", size |-> 0, roomId |-> None, targetId |-> None, payload |-> None]

ObjData(sz, r, t, p) ==
  [form |-> "object", size |-> sz, roomId |-> r, targetId |-> t, payload |-> p]

CircularData ==
  [form |-> "circular", size |-> 0, roomId |-> None, targetId |-> None, payload |-> None]

\* the event-loop is between two events
NoEvent == [sender |-> None, event |-> None, data |-> NullData]

---------------------------------------------------------------------------
(* Outbound messages: [to, event, arg]; arg has every field any outbound   *)
(* payload uses, None (count: -1) where the payload has no such field.     *)

NoArg ==
  [roomId |-> None, viewerId |-> None, payload |-> None, fromId |-> None,
   count |-> -1, message |-> None]

Msg(to, event, arg) == [to |-> to, event |-> event, arg |-> arg]

ErrorMsg(to, text) == Msg(to, "error", [NoArg EXCEPT !.message = text])

\* the connected sockets of `set`, in ConnSeq order
Listed(set) == SelectSeq(ConnSeq, LAMBDA c : c \in set)

\* one message per element of the sequence of recipients
RECURSIVE ToEach(_, _, _)
ToEach(recipients, event, arg) ==
  IF recipients = <<>> THEN <<>>
  ELSE <<Msg(Head(recipients), event, arg)>> \o ToEach(Tail(recipients), event, arg)

\* the sockets that are in adapter room `room`
Members(jn, room) == {c \in Conns : room \in jn[c]}

\* io.to(room).emit(event, arg)
IoToEmit(jn, room, event, arg) == ToEach(Listed(Members(jn, room)), event, arg)

\* socket.to(room).emit(event, arg): the room without the sender
SocketToEmit(jn, s, room, event, arg) ==
  ToEach(Listed(Members(jn, room) \ {s}), event, arg)

\* socket.emit(event, arg) on socket `to`: dropped when `to` is not connected
SocketEmit(conn, to, event, arg) ==
  IF to \in conn THEN <<Msg(to, event, arg)>> ELSE <<>>

---------------------------------------------------------------------------
(* The room table: rooms[k].present says whether key k is in `rooms`.      *)

NoRoom == [present |-> FALSE, host |-> None, viewers |-> <<>>]

NewRoom(h) == [present |-> TRUE, host |-> h, viewers |-> <<>>]

\* Object.keys(rooms)
Keys(rm) == {k \in RoomKeys : rm[k].present}

\* Array.prototype.indexOf, 1-based; 0 when absent
IndexOf(seq, x) ==
  IF \E i \in 1..Len(seq) : seq[i] = x
  THEN CHOOSE i \in 1..Len(seq) : seq[i] = x /\ \A j \in 1..(i - 1) : seq[j] # x
  ELSE 0

\* Array.prototype.splice(i, 1), 1-based
Splice(seq, i) == SubSeq(seq, 1, i - 1) \o SubSeq(seq, i + 1, Len(seq))

\* the elements of a sequence
Range(seq) == {seq[i] : i \in 1..Len(seq)}

---------------------------------------------------------------------------
validateEvent(event, data) ==
  IF event \notin allowedEvents THEN [valid |-> FALSE, error |-> "Invalid event type"]
  ELSE IF data.form = "circular" THEN [valid |-> FALSE, error |-> "Malformed payload"]
  ELSE LET messageSize == IF data.form = "null" THEN 0 ELSE data.size
       IN  IF messageSize > MaxMessageSize
           THEN [valid |-> FALSE, error |-> "Message too large"]
           ELSE [valid |-> TRUE, error |-> None]

Init ==
  /\ rooms = [k \in RoomKeys |-> NoRoom]
  /\ roomId = [c \in Conns |-> None]
  /\ isHost = [c \in Conns |-> None]
  /\ sockets = {}
  /\ closed = {}
  /\ joined = [c \in Conns |-> {}]
  /\ sent = <<>>
  /\ last = NoEvent
  /\ steps = 0

\* the event loop is idle: the previous handler has returned
Idle == last = NoEvent

\* one more lifecycle event, while the run's budget lasts
Step == steps < MaxSteps /\ steps' = steps + 1

\* socket ids are handed out in ConnSeq order
NextId(s) ==
  \E i \in 1..Len(ConnSeq) :
    /\ ConnSeq[i] = s
    /\ \A j \in 1..(i - 1) : ConnSeq[j] \in sockets \cup closed

\* io.on('connection'): a new socket, in the adapter room named by its own id
Connect(s) ==
  /\ Idle
  /\ Step
  /\ s \notin sockets \cup closed
  /\ NextId(s)
  /\ sockets' = sockets \cup {s}
  /\ joined' = [joined EXCEPT ![s] = {s}]
  /\ last' = [sender |-> s, event |-> "connection", data |-> NullData]
  /\ sent' = <<>>
  /\ UNCHANGED <<rooms, roomId, isHost, closed>>

\* a faulty variant: the error is emitted to every connected socket (io.emit)
ErrorReplyToAll(s, text) ==
  ToEach(Listed(sockets), "error", [NoArg EXCEPT !.message = text])

\* socket.emit('error', text)
ErrorReply(s, text) == SocketEmit(sockets, s, "error", [NoArg EXCEPT !.message = text])

\* the record of the inbound event a handler is run for
Inbound(s, event, data) == [sender |-> s, event |-> event, data |-> data]

\* const { roomId, targetId, <payload> } = data || {}
Field(data, name) == IF data.form = "object" THEN data[name] ELSE None

---------------------------------------------------------------------------
(* start-share *)

\* const roomId = providedRoomId || socket.id
StartShareRoomId(s, data) ==
  IF Field(data, "roomId") # None THEN Field(data, "roomId") ELSE s

\* a faulty variant: only the host of an existing room is replaced
StartShareRoomsKeepViewers(rm, s, rid) ==
  [rm EXCEPT ![rid].present = TRUE, ![rid].host = s]

\* rooms[roomId] = { host: socket, viewers: [] }
StartShareRooms(rm, s, rid) == [rm EXCEPT ![rid] = NewRoom(s)]

StartShare(s, data) ==
  /\ Idle
  /\ Step
  /\ s \in sockets
  /\ last' = Inbound(s, "start-share", data)
  /\ LET validation == validateEvent("start-share", data)
     IN  IF ~validation.valid
         THEN /\ sent' = ErrorReply(s, validation.error)
              /\ UNCHANGED <<rooms, roomId, isHost, sockets, closed, joined>>
         ELSE LET rid == StartShareRoomId(s, data)
                  jn  == [joined EXCEPT ![s] = @ \cup {rid}]
              IN  /\ rooms' = StartShareRooms(rooms, s, rid)
                  /\ joined' = jn
                  /\ roomId' = [roomId EXCEPT ![s] = rid]
                  /\ isHost' = [isHost EXCEPT ![s] = "true"]
                  /\ sent' = IoToEmit(jn, rid, "room-created", [NoArg EXCEPT !.roomId = rid])
                  /\ UNCHANGED <<sockets, closed>>

---------------------------------------------------------------------------
(* stop-share: the handler takes no argument and does not validate *)

\* if (roomId && rooms[roomId] && socket.isHost)
StopShareGuard(s) ==
  /\ roomId[s] # None
  /\ rooms[roomId[s]].present
  /\ isHost[s] = "true"

\* rooms[roomId].viewers.forEach(viewer => viewer.leave(roomId))
LeaveAll(jn, viewers, rid) ==
  [c \in Conns |-> IF c \in Range(viewers) THEN jn[c] \ {rid} ELSE jn[c]]

StopShare(s, data) ==
  /\ Idle
  /\ Step
  /\ s \in sockets
  /\ last' = Inbound(s, "stop-share", data)
  /\ IF StopShareGuard(s)
     THEN LET rid == roomId[s]
          IN  /\ sent' = IoToEmit(joined, rid, "host-stopped", NoArg)
              /\ joined' = LeaveAll(joined, rooms[rid].viewers, rid)
              /\ rooms' = [rooms EXCEPT ![rid] = NoRoom]
              /\ UNCHANGED <<roomId, isHost, sockets, closed>>
     ELSE /\ sent' = <<>>
          /\ UNCHANGED <<rooms, roomId, isHost, sockets, closed, joined>>

---------------------------------------------------------------------------
(* get-available: no validation either *)

\* Object.keys(rooms).length
AvailableCount(rm) == Cardinality(Keys(rm))

GetAvailable(s, data) ==
  /\ Idle
  /\ UNCHANGED steps
  /\ s \in sockets
  /\ last' = Inbound(s, "get-available", data)
  /\ sent' = SocketEmit(sockets, s, "available-count",
                        [NoArg EXCEPT !.count = AvailableCount(rooms)])
  /\ UNCHANGED <<rooms, roomId, isHost, sockets, closed, joined>>

---------------------------------------------------------------------------
(* join-view *)

\* a faulty variant: unshift instead of push
JoinViewersFirst(viewers, s) == <<s>> \o viewers

\* room.viewers.push(socket)
JoinViewers(viewers, s) == Append(viewers, s)

JoinView(s, data) ==
  /\ Idle
  /\ Step
  /\ s \in sockets
  /\ last' = Inbound(s, "join-view", data)
  /\ LET validation == validateEvent("join-view", data)
         rid == Field(data, "roomId")
     IN  IF ~validation.valid
         THEN /\ sent' = ErrorReply(s, validation.error)
              /\ UNCHANGED <<rooms, roomId, isHost, sockets, closed, joined>>
         ELSE IF rid = None
         THEN /\ sent' = ErrorReply(s, "Missing roomId")
              /\ UNCHANGED <<rooms, roomId, isHost, sockets, closed, joined>>
         ELSE IF ~rooms[rid].present
         THEN /\ sent' = ErrorReply(s, "Room not found")
              /\ UNCHANGED <<rooms, roomId, isHost, sockets, closed, joined>>
         ELSE LET jn == [joined EXCEPT ![s] = @ \cup {rid}]
              IN  /\ Len(rooms[rid].viewers) < MaxViewers
                  /\ rooms' = [rooms EXCEPT ![rid].viewers = JoinViewers(@, s)]
                  /\ joined' = jn
                  /\ roomId' = [roomId EXCEPT ![s] = rid]
                  /\ isHost' = [isHost EXCEPT ![s] = "false"]
                  /\ sent' = IoToEmit(jn, rid, "viewer-joined", [NoArg EXCEPT !.viewerId = s])
                             \o SocketEmit(sockets, s, "view-joined", [NoArg EXCEPT !.roomId = rid])
                  /\ UNCHANGED <<sockets, closed>>

---------------------------------------------------------------------------
(* offer, answer, ice, ice-candidate: four handlers of one shape *)

\* a faulty variant: every handler emits under its own name
OutEventSame(event) == event

\* the event name the handler emits
OutEvent(event) == IF event = "ice-candidate" THEN "ice" ELSE event

\* the text of the handler's own error
InvalidPayload(event) ==
  CASE event = "offer" -> "Invalid offer payload"
    [] event = "answer" -> "Invalid answer payload"
    [] OTHER -> "Invalid ICE payload"

\* { offer, fromId: socket.id }
Relayed(s, payload) == [NoArg EXCEPT !.payload = payload, !.fromId = s]

\* a faulty variant: the target's room is not compared with the sender's
TargetGuardAnyRoom(s, targetId) == targetId \in sockets

\* io.sockets.sockets.get(targetId), then
\* if (targetSocket && targetSocket.roomId === socket.roomId)
TargetGuard(s, targetId) ==
  /\ targetId \in sockets
  /\ roomId[targetId] = roomId[s]

\* a faulty variant: the first test is "neither targetId nor payload"
SignalOutBothMissing(s, event, targetId, payload) ==
  IF targetId = None /\ payload = None
  THEN IF roomId[s] # None /\ payload # None
       THEN SocketToEmit(joined, s, roomId[s], OutEvent(event), Relayed(s, payload))
       ELSE ErrorReply(s, InvalidPayload(event))
  ELSE IF TargetGuard(s, targetId)
       THEN SocketEmit(sockets, targetId, OutEvent(event), Relayed(s, payload))
       ELSE <<>>

\* the messages the handler emits for a payload that passed validateEvent
SignalOut(s, event, targetId, payload) ==
  IF targetId = None \/ payload = None
  THEN IF roomId[s] # None /\ payload # None
       THEN SocketToEmit(joined, s, roomId[s], OutEvent(event), Relayed(s, payload))
       ELSE ErrorReply(s, InvalidPayload(event))
  ELSE IF TargetGuard(s, targetId)
       THEN SocketEmit(sockets, targetId, OutEvent(event), Relayed(s, payload))
       ELSE <<>>

Signal(s, event, data) ==
  /\ Idle
  /\ UNCHANGED steps
  /\ s \in sockets
  /\ last' = Inbound(s, event, data)
  /\ LET validation == validateEvent(event, data)
     IN  IF ~validation.valid
         THEN sent' = ErrorReply(s, validation.error)
         ELSE sent' = SignalOut(s, event, Field(data, "targetId"), Field(data, "payload"))
  /\ UNCHANGED <<rooms, roomId, isHost, sockets, closed, joined>>

---------------------------------------------------------------------------
(* an event name no socket.on(...) names: Socket.IO finds no listener *)

Unhandled(s, event, data) ==
  /\ Idle
  /\ UNCHANGED steps
  /\ s \in sockets
  /\ last' = Inbound(s, event, data)
  /\ sent' = <<>>
  /\ UNCHANGED <<rooms, roomId, isHost, sockets, closed, joined>>

---------------------------------------------------------------------------
(* disconnect.  The handler calls viewer.disconnect(), which runs that     *)
(* viewer's own 'disconnect' handler synchronously, so the whole cascade   *)
(* is computed on a record st = [rooms, sockets, joined, out, iterating,   *)
(* reentered].  A room the cascade deletes keeps its viewers array in      *)
(* st.rooms (present = FALSE): a forEach that is still walking the array   *)
(* holds a reference to it.  st.iterating is the call stack: the rooms     *)
(* whose forEach has started and not returned; st.reentered records that a *)
(* handler went on to read and change a room on that stack.                *)

\* the record a disconnect starts from: nothing sent, no handler running
Begin(rm, sk, jn) ==
  [rooms |-> rm, sockets |-> sk, joined |-> jn, out |-> <<>>,
   iterating |-> <<>>, reentered |-> FALSE]

\* the viewer branch: indexOf, splice, room.host.emit('viewer-left')
ViewerBranch(st, s, rid) ==
  LET room == st.rooms[rid]
      viewerIndex == IndexOf(room.viewers, s)
  IN  IF viewerIndex > 0
      THEN [st EXCEPT !.rooms[rid].viewers = Splice(@, viewerIndex),
                      !.out = @ \o SocketEmit(st.sockets, room.host, "viewer-left",
                                              [NoArg EXCEPT !.viewerId = s])]
      ELSE st

RECURSIVE OnClose(_, _)
RECURSIVE HostLoop(_, _, _, _)
RECURSIVE DisconnectHandler(_, _)

\* room.viewers.forEach(viewer => { viewer.emit(...); viewer.disconnect(); })
\* from index k on: forEach fixes len when it starts, reads the array itself
\* at each index, and skips an index the array no longer has
HostLoop(st, rid, k, len) ==
  IF k > len \/ k > Len(st.rooms[rid].viewers) THEN st
  ELSE LET viewer == st.rooms[rid].viewers[k]
           st1 == [st EXCEPT !.out = @ \o SocketEmit(st.sockets, viewer,
                                                     "host-disconnected", NoArg)]
           st2 == IF viewer \in st1.sockets THEN OnClose(st1, viewer) ELSE st1
       IN  HostLoop(st2, rid, k + 1, len)

\* socket.on('disconnect', ...)
DisconnectHandler(st, s) ==
  LET rid == roomId[s]
      here == [st EXCEPT !.reentered = @ \/ rid \in Range(st.iterating)]
  IN  IF rid = None THEN st
      ELSE IF ~st.rooms[rid].present THEN st
      ELSE IF isHost[s] = "true"
      THEN [HostLoop([here EXCEPT !.iterating = Append(@, rid)],
                     rid, 1, Len(st.rooms[rid].viewers))
              EXCEPT !.rooms[rid].present = FALSE,
                     !.iterating = st.iterating]
      ELSE ViewerBranch(here, s, rid)

\* Socket.IO closing socket s: it leaves every adapter room, is dropped from
\* io.sockets.sockets, and then its 'disconnect' listeners run
OnClose(st, s) ==
  DisconnectHandler([st EXCEPT !.sockets = @ \ {s}, !.joined[s] = {}], s)

\* the room table once the handler has returned: deleted rooms are gone
Table(rm) == [k \in RoomKeys |-> IF rm[k].present THEN rm[k] ELSE NoRoom]

Disconnect(s) ==
  /\ Idle
  /\ Step
  /\ s \in sockets
  /\ last' = Inbound(s, "disconnect", NullData)
  /\ LET st == OnClose(Begin(rooms, sockets, joined), s)
     IN  /\ rooms' = Table(st.rooms)
         /\ sockets' = st.sockets
         /\ closed' = closed \cup (sockets \ st.sockets)
         /\ joined' = st.joined
         /\ sent' = st.out
  /\ UNCHANGED <<roomId, isHost>>

\* the handler has returned; its messages are with the transport
Return ==
  /\ ~Idle
  /\ last' = NoEvent
  /\ sent' = <<>>
  /\ UNCHANGED <<rooms, roomId, isHost, sockets, closed, joined, steps>>

---------------------------------------------------------------------------
(* The inbound payloads the model sends *)

\* an object one character over the limit, with every field set
Oversized == ObjData(MaxMessageSize + 1, "r1", "c1", "x1")

StartShareInputs ==
  {ObjData(MaxMessageSize, r, None, None) : r \in RoomNames \cup {None}}
    \cup {NullData, CircularData, Oversized}

JoinViewInputs ==
  {ObjData(MaxMessageSize, r, None, None) : r \in JoinRooms \cup {None}}
    \cup {CircularData, Oversized}

SignalInputs ==
  {ObjData(MaxMessageSize, None, t, p) :
      t \in Conns \cup {Ghost, None}, p \in Payloads \cup {None}}
    \cup {NullData, CircularData, Oversized}

NoArgInputs == {NullData, Oversized}

Next ==
  \/ \E s \in Conns : Connect(s)
  \/ \E s \in Conns, d \in StartShareInputs : StartShare(s, d)
  \/ \E s \in Conns, d \in NoArgInputs : StopShare(s, d)
  \/ \E s \in Conns, d \in NoArgInputs : GetAvailable(s, d)
  \/ \E s \in Conns, d \in JoinViewInputs : JoinView(s, d)
  \/ \E s \in Conns, e \in SignalEvents, d \in SignalInputs : Signal(s, e, d)
  \/ \E s \in Conns, e \in UnknownEvents : Unhandled(s, e, NullData)
  \/ \E s \in Conns : Disconnect(s)
  \/ Return

Spec == Init /\ [][Next]_vars

---------------------------------------------------------------------------
(* Vocabulary of the properties *)

\* a is a connected socket that is the host of room r, by the room table and
\* by its own fields
HostOf(a, r) ==
  /\ a \in sockets
  /\ rooms[r].present
  /\ rooms[r].host = a
  /\ roomId[a] = r
  /\ isHost[a] = "true"

\* c is a connected socket that is a viewer of room r, by the room table and
\* by its own fields
ViewerOf(c, r) ==
  /\ c \in sockets
  /\ rooms[r].present
  /\ c \in Range(rooms[r].viewers)
  /\ roomId[c] = r
  /\ isHost[c] = "false"

\* the payload of the handled event is an object within the size limit
ValidObject(data) == data.form = "object" /\ data.size <= MaxMessageSize

\* the messages of a sequence that are addressed to c
To(seq, c) == SelectSeq(seq, LAMBDA m : m.to = c)

---------------------------------------------------------------------------
\* C1: when the host h of room r disconnects, every connected socket in r's
\* viewer list at that moment receives 'host-disconnected' and is closed, and
\* r is removed from the room table, for any number of viewers.
HostDisconnectCascade ==
  [][\A h \in Conns, r \in RoomKeys :
       (Idle /\ HostOf(h, r) /\ last' = Inbound(h, "disconnect", NullData))
         => /\ ~rooms'[r].present
            /\ \A v \in Range(rooms[r].viewers) \cap sockets :
                 /\ v \notin sockets'
                 /\ Len(To(sent', v)) >= 1
                 /\ \E i \in 1..Len(sent') :
                      sent'[i] = Msg(v, "host-disconnected", NoArg)]_vars

\* C2: a room is in the room table only while the connection recorded as
\* its host is connected (the "no room outlives its host" half of the
\* room/host liveness invariant).
RoomHostLive == \A k \in Keys(rooms) : rooms[k].host \in sockets

\* C3: a signal sent by host a of room r with a targetId and a payload x:
\* to a viewer of r, exactly one message, to that viewer, carrying x and
\* fromId = a; to a connection with another roomId or none, or to a targetId
\* that names no connected socket, no message at all (and so no error to a).
TargetedRelay ==
  \A a \in Conns, r \in RoomKeys :
    ( /\ last.sender = a
      /\ last.event \in SignalEvents
      /\ ValidObject(last.data)
      /\ last.data.targetId # None
      /\ last.data.payload # None
      /\ HostOf(a, r) )
    => LET t == last.data.targetId
           x == last.data.payload
       IN  /\ (t \in Conns /\ ViewerOf(t, r))
                => /\ Len(sent) = 1
                   /\ sent[1].to = t
                   /\ sent[1].arg.payload = x
                   /\ sent[1].arg.fromId = a
           /\ (t \notin sockets \/ roomId[t] # r) => sent = <<>>

\* C3 witness: the host's offer has just been relayed to a viewer of its room
TargetedRelayWitness ==
  \E a \in Conns, c \in Conns, r \in RoomKeys :
    /\ HostOf(a, r)
    /\ ViewerOf(c, r)
    /\ last = Inbound(a, "offer", ObjData(MaxMessageSize, None, c, "x1"))
    /\ sent = <<Msg(c, "offer", Relayed(a, "x1"))>>

\* C4: stop-share by s takes effect exactly when s is the host recorded for
\* room roomId[s]: then 'host-stopped' goes to the room, every viewer leaves
\* it and the room is deleted; when the room table does not record s as the
\* host of roomId[s] (s unassigned, a viewer, already stopped, or a former
\* host whose room id another start-share took over) nothing changes and
\* nothing is sent.
StopShareOnlyByHost ==
  [][\A s \in Conns :
       (Idle /\ s \in sockets /\ last'.sender = s /\ last'.event = "stop-share")
         => LET r == roomId[s]
            IN  /\ (r # None /\ HostOf(s, r))
                     => /\ ~rooms'[r].present
                        /\ \A v \in Range(rooms[r].viewers) : r \notin joined'[v]
                        /\ \A c \in Members(joined, r) :
                             \E i \in 1..Len(sent') :
                               sent'[i] = Msg(c, "host-stopped", NoArg)
                /\ (r = None \/ ~rooms[r].present \/ rooms[r].host # s)
                     => /\ rooms' = rooms
                        /\ joined' = joined
                        /\ sent' = <<>>]_vars

\* the rooms of the table whose recorded host is a connected socket
LiveRooms == {k \in Keys(rooms) : rooms[k].host \in sockets}

\* C5: the count replied by get-available is the number of rooms whose host
\* is still connected, and the reply goes to the sender only.
AvailabilityCount ==
  last.event = "get-available"
    => sent = <<Msg(last.sender, "available-count",
                    [NoArg EXCEPT !.count = Cardinality(LiveRooms)])>>

\* the events Socket.IO itself raises
LifecycleEvents == {"connection", "disconnect"}

\* C6: an inbound event whose kind is not in the allow-list is answered with
\* 'Invalid event type', to the sender only, and changes no state.
UnknownEventRejected ==
  [][(Idle /\ last'.event \notin allowedEvents \cup LifecycleEvents \cup {None})
       => /\ sent' = <<ErrorMsg(last'.sender, "Invalid event type")>>
          /\ UNCHANGED <<rooms, roomId, isHost, sockets, closed, joined>>]_vars

\* the state a disconnect cascade would start from after this step
After == Begin(rooms', sockets', joined')

\* C7: when viewer c of room r, whose host a is connected, disconnects: c is
\* no longer in r's viewer list, the other viewers keep their order, a gets
\* exactly one 'viewer-left' naming c, r still exists with host a, and the
\* cleanup run again for a c that is not in the list changes and sends nothing.
ViewerDisconnect ==
  [][\A c \in Conns, a \in Conns, r \in RoomKeys :
       ( /\ Idle
         /\ ViewerOf(c, r)
         /\ a # c
         /\ a \in sockets
         /\ rooms[r].host = a
         /\ last' = Inbound(c, "disconnect", NullData) )
       => /\ c \notin Range(rooms'[r].viewers)
          /\ rooms'[r].viewers = SelectSeq(rooms[r].viewers, LAMBDA v : v # c)
          /\ To(sent', a) = <<Msg(a, "viewer-left", [NoArg EXCEPT !.viewerId = c])>>
          /\ rooms'[r].present
          /\ rooms'[r].host = a
          /\ (c \notin Range(rooms'[r].viewers) => DisconnectHandler(After, c) = After)]_vars

\* how often x occurs in a sequence
Count(seq, x) == Cardinality({i \in 1..Len(seq) : seq[i] = x})

\* C8: when an unassigned connection c sends join-view for a room r that
\* exists with host a: c is appended to r's viewer list and occurs in it
\* exactly once, c becomes a viewer with roomId r, a receives 'viewer-joined'
\* naming c, and c receives 'view-joined' naming r.
JoinCorrect ==
  [][\A c \in Conns, a \in Conns, r \in RoomKeys :
       ( /\ Idle
         /\ c \in sockets
         /\ roomId[c] = None
         /\ isHost[c] = None
         /\ HostOf(a, r)
         /\ last'.sender = c
         /\ last'.event = "join-view"
         /\ ValidObject(last'.data)
         /\ last'.data.roomId = r )
       => /\ rooms'[r].viewers = Append(rooms[r].viewers, c)
          /\ Count(rooms'[r].viewers, c) = 1
          /\ roomId'[c] = r
          /\ isHost'[c] = "false"
          /\ To(sent', a) = <<Msg(a, "viewer-joined", [NoArg EXCEPT !.viewerId = c])>>
          /\ \E i \in 1..Len(sent') :
               sent'[i] = Msg(c, "view-joined", [NoArg EXCEPT !.roomId = r])]_vars

\* C8 witness: c has just joined room r behind an earlier viewer, and the
\* host and c have their notifications
JoinCorrectWitness ==
  \E c \in Conns, a \in Conns, v \in Conns, r \in RoomKeys :
    /\ v # c
    /\ last = Inbound(c, "join-view", ObjData(MaxMessageSize, r, None, None))
    /\ HostOf(a, r)
    /\ ViewerOf(c, r)
    /\ rooms[r].viewers = <<v, c>>
    /\ \E i \in 1..Len(sent) :
         sent[i] = Msg(a, "viewer-joined", [NoArg EXCEPT !.viewerId = c])
    /\ \E i \in 1..Len(sent) :
         sent[i] = Msg(c, "view-joined", [NoArg EXCEPT !.roomId = r])

\* the error texts of the server
ErrorTexts ==
  {"Invalid event type", "Malformed payload", "Message too large",
   "Missing roomId", "Room not found", "Invalid offer payload",
   "Invalid answer payload", "Invalid ICE payload"}

\* C9: an event that is answered with an error sends that one error, to the
\* sender only, leaves the room table and every connection's role and roomId
\* as they were and the sender connected; join-view for a room id that is
\* not in the table is answered with 'Room not found'.
ErrorIsolation ==
  [][/\ (Idle /\ \E i \in 1..Len(sent') : sent'[i].event = "error")
          => /\ Len(sent') = 1
             /\ sent'[1].to = last'.sender
             /\ sent'[1].arg.message \in ErrorTexts
             /\ last'.sender \in sockets'
             /\ UNCHANGED <<rooms, roomId, isHost, sockets, closed>>
     /\ ( /\ Idle
          /\ last'.event = "join-view"
          /\ ValidObject(last'.data)
          /\ last'.data.roomId # None
          /\ ~rooms[last'.data.roomId].present )
          => /\ sent' = <<ErrorMsg(last'.sender, "Room not found")>>
             /\ UNCHANGED <<rooms, roomId, isHost, sockets, closed>>]_vars

\* C9 witness: a join-view for a missing room has just been refused while
\* another socket is connected and a room exists
ErrorIsolationWitness ==
  /\ last.event = "join-view"
  /\ sent = <<ErrorMsg(last.sender, "Room not found")>>
  /\ sockets \ {last.sender} # {}
  /\ Keys(rooms) # {}

\* C10: start-share by s leaves room r (the roomId supplied, or s's own id
\* when none is) in the table with host s and an empty viewer list, so that
\* no viewer of the room it replaces is a member of it.
RoomOverwrite ==
  [][\A s \in Conns :
       ( /\ Idle
         /\ last'.sender = s
         /\ last'.event = "start-share"
         /\ (last'.data.form = "null" \/ ValidObject(last'.data)) )
       => LET r == IF last'.data.roomId # None THEN last'.data.roomId ELSE s
          IN  /\ rooms'[r].present
              /\ rooms'[r].host = s
              /\ rooms'[r].viewers = <<>>
              /\ roomId'[s] = r
              /\ \A v \in Range(rooms[r].viewers) \ {s} :
                   v # rooms'[r].host /\ v \notin Range(rooms'[r].viewers)]_vars

\* C10 witness: s has just taken over room r1 from a connected former host
\* that had a connected viewer
RoomOverwriteWitness ==
  \E s \in Conns, a \in Conns, v \in Conns :
    /\ a # s /\ v # s /\ v # a
    /\ last = Inbound(s, "start-share", ObjData(MaxMessageSize, "r1", None, None))
    /\ rooms["r1"] = NewRoom(s)
    /\ a \in sockets /\ roomId[a] = "r1" /\ isHost[a] = "true"
    /\ v \in sockets /\ roomId[v] = "r1" /\ isHost[v] = "false"

\* C11: every connection in a room's viewer list is a connected socket whose
\* roomId is that room's id and whose role is viewer (isHost = false: neither
\* host nor unassigned).
ViewerMembership ==
  \A k \in Keys(rooms) : \A v \in Range(rooms[k].viewers) :
    /\ v \in sockets
    /\ roomId[v] = k
    /\ isHost[v] = "false"

\* C12: for every room of the table, the connection recorded as its host has
\* role host (isHost = true) and a roomId equal to the room's id.
HostMembership ==
  \A k \in Keys(rooms) :
    /\ isHost[rooms[k].host] = "true"
    /\ roomId[rooms[k].host] = k

\* C13: no connection occurs more than once in any room's viewer list, also
\* after the same connection has sent join-view for the same room twice.
NoDuplicateViewers ==
  \A k \in Keys(rooms) : \A v \in Conns : Count(rooms[k].viewers, v) <= 1

\* C14: for every allow-listed event kind, stop-share and get-available
\* included, a payload of serialized size above 65536 is answered with
\* 'Message too large', to the sender only, and leaves the room table as it
\* was; a payload of size exactly 65536 is not answered with that error.
SizeValidation ==
  [][(Idle /\ last'.event \in allowedEvents /\ last'.data.form = "object")
       => /\ last'.data.size > MaxMessageSize
               => /\ sent' = <<ErrorMsg(last'.sender, "Message too large")>>
                  /\ rooms' = rooms
          /\ last'.data.size = MaxMessageSize
               => \A i \in 1..Len(sent') :
                    sent'[i].arg.message # "Message too large"]_vars

\* C15: every handler and every disconnect cleanup reads and changes a room
\* as one non-interleaved step: while a disconnect handler is walking a
\* room's viewers (the host-disconnect cascade), no other connection's
\* disconnect cleanup starts to read or change that same room.  The other
\* handlers call no handler, so the disconnect is the only step it can fail in.
AtomicHandlers ==
  [][\A s \in Conns :
       (Idle /\ s \in sockets /\ last' = Inbound(s, "disconnect", NullData))
         => ~OnClose(Begin(rooms, sockets, joined), s).reentered]_vars

\* C16: a signal (offer, answer, ice, ice-candidate) from s that passed
\* validation has exactly one of three outcomes.  (a) targetId and payload
\* present: at most one message, to the target, carrying the payload and
\* fromId = s, and no error.  (b) targetId absent, payload present, s has a
\* roomId: only relays of the payload from s, to connected sockets other than
\* s, and no error.  (c) payload absent, or targetId absent and s has no
\* roomId: the one error 'Invalid offer payload' / 'Invalid answer payload' /
\* 'Invalid ICE payload', to s, and nothing to anyone else.
SignalClassification ==
  (last.event \in SignalEvents /\ validateEvent(last.event, last.data).valid)
    => LET s == last.sender
           t == Field(last.data, "targetId")
           x == Field(last.data, "payload")
           text == IF last.event = "offer" THEN "Invalid offer payload"
                   ELSE IF last.event = "answer" THEN "Invalid answer payload"
                   ELSE "Invalid ICE payload"
       IN  /\ (t # None /\ x # None)
                => \/ sent = <<>>
                   \/ /\ Len(sent) = 1
                      /\ sent[1].to = t
                      /\ sent[1].event # "error"
                      /\ sent[1].arg = Relayed(s, x)
           /\ (t = None /\ x # None /\ roomId[s] # None)
                => \A i \in 1..Len(sent) :
                     /\ sent[i].event # "error"
                     /\ sent[i].to \in sockets \ {s}
                     /\ sent[i].arg = Relayed(s, x)
           /\ (x = None \/ (t = None /\ roomId[s] = None))
                => sent = <<ErrorMsg(s, text)>>

\* C16 witness: the host of a room with a viewer has just sent an offer that
\* names the viewer but has no payload, and got 'Invalid offer payload'
SignalClassificationWitness ==
  \E a \in Conns, c \in Conns, r \in RoomKeys :
    /\ HostOf(a, r)
    /\ ViewerOf(c, r)
    /\ last = Inbound(a, "offer", ObjData(MaxMessageSize, None, c, None))
    /\ sent = <<ErrorMsg(a, "Invalid offer payload")>>

\* the connected sockets that are host or viewer of room r, by the room
\* table and by their own fields
CurrentMembers(r) == {c \in sockets : HostOf(c, r) \/ ViewerOf(c, r)}

\* C17: a signal from s with a payload and no targetId, while s has a
\* roomId, goes exactly to the other current members (host and viewers) of
\* room roomId[s], once each, carrying the payload and fromId = s; s does not
\* receive it, and neither does a connection that is not currently a member
\* of that room.
BroadcastScope ==
  ( /\ last.event \in SignalEvents
    /\ validateEvent(last.event, last.data).valid
    /\ Field(last.data, "targetId") = None
    /\ Field(last.data, "payload") # None
    /\ roomId[last.sender] # None )
  => LET s == last.sender
     IN  /\ {sent[i].to : i \in 1..Len(sent)} = CurrentMembers(roomId[s]) \ {s}
         /\ \A c \in Conns : Len(To(sent, c)) <= 1
         /\ \A i \in 1..Len(sent) :
              sent[i].arg = Relayed(s, Field(last.data, "payload"))

\* C18: a disconnect deletes a room only if a connection that the step
\* disconnects is the host recorded in that room; the disconnect of a
\* connection s that started room r and is no longer its recorded host (r was
\* taken over by another start-share) leaves r with its host and viewers as
\* they were and closes no socket but s.
DisconnectDeletesOwnRoom ==
  [][\A s \in Conns :
       (Idle /\ s \in sockets /\ last' = Inbound(s, "disconnect", NullData))
         => /\ \A k \in Keys(rooms) :
                 ~rooms'[k].present => rooms[k].host \in sockets \ sockets'
            /\ \A r \in Keys(rooms) :
                 (roomId[s] = r /\ isHost[s] = "true" /\ rooms[r].host # s)
                   => /\ rooms'[r] = rooms[r]
                      /\ sockets' = sockets \ {s}]_vars

\* C19: whenever a targeted signal is delivered, the sender and the target
\* are both current members (host or viewer) of one room that is in the room
\* table; so nothing is delivered between two connections that never created
\* or joined a room, nor between former members of a room that stop-share
\* deleted.
RelayConfinement ==
  ( /\ last.event \in SignalEvents
    /\ validateEvent(last.event, last.data).valid
    /\ Field(last.data, "targetId") # None
    /\ Field(last.data, "payload") # None
    /\ sent # <<>> )
  => \E r \in Keys(rooms) :
       {last.sender, Field(last.data, "targetId")} \subseteq CurrentMembers(r)

====
